---- MODULE Spec2Model ----
(***************************************************************************)
(* Memory Puzzle (src/main.cpp): a console card-pairs game.                *)
(*                                                                         *)
(* The model follows the program from main(): the startup line is parsed, *)
(* the Board is built (makeValues, the paired deck, the shuffle), and      *)
(* Game::play runs its loop.  One action is one stretch of the program     *)
(* between two blocking reads of standard input (getline), so every        *)
(* action consumes exactly one input line (or meets the end of input).     *)
(* Standard input is a finite sequence of lines: linesLeft says how many   *)
(* it still holds, and what each line says is chosen when it is read.      *)
(* The seed random_device supplies is an input too: std::shuffle is        *)
(* modelled as the library of the build (libstdc++ 12) computes it from    *)
(* the words of the mt19937 generator seeded with it.                      *)
(*                                                                         *)
(* Input lines are sequences of one-character strings, and the extraction  *)
(* `ss >> r >> c` is modelled character by character.                      *)
(***************************************************************************)
EXTENDS Integers, Sequences, FiniteSets, TLC

VARIABLES
    pc,        \* where the program waits: "main", "start", "first", "second", "ack", "won", "error"
    rows,      \* Board::rows
    cols,      \* Board::cols
    cards,     \* Board::cards, row-major, a sequence of Card records
    moves,     \* Game::moves
    sel1,      \* (r1, c1) of Game::play while in scope, else None
    sel2,      \* (r2, c2) of Game::play while in scope, else None
    out,       \* the status message the last step printed ("none" if it printed none)
    eof,       \* TRUE once a getline has failed at the end of standard input
    linesLeft, \* the number of lines standard input still holds
    matchTurns, \* history: turns that reached the comparison with equal values
    missTurns,  \* history: turns that reached the comparison with different values
    turnStart   \* history: the board as it was at the top of the current loop iteration

vars == <<pc, rows, cols, cards, moves, sel1, sel2, out, eof, linesLeft, matchTurns, missTurns, turnStart>>

-----------------------------------------------------------------------------
(* Bounds of the model.                                                    *)

\* Startup lines of the play specification ask for boards of at most
\* MaxRows x MaxCols with at most MaxCells cells.
MaxRows == 3
MaxCols == 3
MaxCells == 6
\* Standard input holds at most MaxLines lines.  A game on a board of c
\* cells with m mismatching turns reads 2 + c + 3 * m of them.
MaxLines == 10
\* A deck of at most MaxFullShuffle cards (every board of the play
\* specification) is dealt in every order: each of them is the order some seed
\* deals.  A longer deck is dealt in the orders of the seeds 0..MaxSeed.
MaxFullShuffle == 6
MaxSeed == 7
\* The board-construction specification builds boards of up to MaxBuildCells cells.
MaxBuildCells == 142
\* The Card specification calls the operations of up to MaxCardObjects cards.
MaxCardObjects == 5

\* Largest dimension of the startup lines.
MaxStartDim == 5

\* Most columns of the two-row boards whose pairs outnumber the pool.
MaxWrapCols == 71
\* Most lines of standard input in a game on those boards.
MaxWrapLines == 9

-----------------------------------------------------------------------------
(* int arithmetic (32-bit two's complement, as the usual builds produce).  *)

IntMax == 2147483647
IntMin == -2147483647 - 1

\* Byte k (0 is the lowest) of the two's complement representation of a.
Byte(a, k) ==
    (a \div (IF k = 0 THEN 1 ELSE IF k = 1 THEN 256 ELSE IF k = 2 THEN 65536 ELSE 16777216)) % 256

\* a * b modulo 2^32: schoolbook multiplication of the four bytes of each
\* operand, keeping the low four bytes of the product.
Mul32(a, b) ==
    LET s0 == Byte(a, 0) * Byte(b, 0)
        s1 == Byte(a, 0) * Byte(b, 1) + Byte(a, 1) * Byte(b, 0) + (s0 \div 256)
        s2 == Byte(a, 0) * Byte(b, 2) + Byte(a, 1) * Byte(b, 1) + Byte(a, 2) * Byte(b, 0)
              + (s1 \div 256)
        s3 == Byte(a, 0) * Byte(b, 3) + Byte(a, 1) * Byte(b, 2) + Byte(a, 2) * Byte(b, 1)
              + Byte(a, 3) * Byte(b, 0) + (s2 \div 256)
        top == s3 % 256
    IN  (IF top >= 128 THEN top - 256 ELSE top) * 16777216
        + (s2 % 256) * 65536 + (s1 % 256) * 256 + (s0 % 256)

\* n - 1 as an int: the smallest int wraps around.
Dec32(n) == IF n = IntMin THEN IntMax ELSE n - 1

\* C++ integer division truncates toward zero.
DivTrunc(a, b) == IF a >= 0 THEN a \div b ELSE -((-a) \div b)

None == <<>>

-----------------------------------------------------------------------------
(* Text input: operator>>(istream&, int&) on one line.                     *)

DigitChars == <<"0", "1", "2", "3", "4", "5", "6", "7", "8", "9">>

IsDigit(ch) == \E d \in 1..10 : DigitChars[d] = ch

DigitVal(ch) == (CHOOSE d \in 1..10 : DigitChars[d] = ch) - 1

\* The characters isspace() holds of in the "C" locale: blank, horizontal tab,
\* newline, vertical tab, form feed and carriage return.
WhiteSpace == {" ", "\t", "\n", "", "\f", "\r"}

\* The sentry of a formatted extraction skips leading whitespace.
RECURSIVE SkipWs(_, _)
SkipWs(s, i) ==
    IF i <= Len(s) /\ s[i] \in WhiteSpace THEN SkipWs(s, i + 1) ELSE i

\* The index after the longest run of digits starting at i.
RECURSIVE DigitsEnd(_, _)
DigitsEnd(s, i) ==
    IF i <= Len(s) /\ IsDigit(s[i]) THEN DigitsEnd(s, i + 1) ELSE i

\* The digits s[i..j-1] accumulated as a non-positive number -d1d2...dn, or
\* 1 when the magnitude exceeds 2^31 (no int, of either sign, holds it).
RECURSIVE DigitsValue(_, _, _, _)
DigitsValue(s, i, j, acc) ==
    IF i >= j THEN acc
    ELSE LET d == DigitVal(s[i]) IN
         IF acc < (IntMin + d) \div 10 + (IF (IntMin + d) % 10 = 0 THEN 0 ELSE 1) THEN 1
         ELSE DigitsValue(s, i + 1, j, 10 * acc - d)

\* One `ss >> n` starting at index i: [ok, val, next].  It fails (failbit) at
\* the end of the line, when no digit follows the optional sign, and when the
\* value does not fit an int (val is then the nearest int).
ReadInt(s, i) ==
    LET j == SkipWs(s, i) IN
    IF j > Len(s) THEN [ok |-> FALSE, val |-> 0, next |-> j]
    ELSE
        LET signed == s[j] \in {"-", "+"}
            k == IF signed THEN j + 1 ELSE j
            e == DigitsEnd(s, k)
            neg == DigitsValue(s, k, e, 0)
        IN  IF e = k THEN [ok |-> FALSE, val |-> 0, next |-> e]
            ELSE IF s[j] = "-"
            THEN (IF neg = 1 THEN [ok |-> FALSE, val |-> IntMin, next |-> e]
                  ELSE [ok |-> TRUE, val |-> neg, next |-> e])
            ELSE (IF neg = 1 \/ neg = IntMin THEN [ok |-> FALSE, val |-> IntMax, next |-> e]
                  ELSE [ok |-> TRUE, val |-> -neg, next |-> e])

\* `ss >> r >> c`: the second extraction is attempted only if the first succeeded.
ParsePair(s) ==
    LET a == ReadInt(s, 1) IN
    IF ~a.ok THEN [ok |-> FALSE, r |-> a.val, c |-> 0]
    ELSE LET b == ReadInt(s, a.next) IN [ok |-> b.ok, r |-> a.val, c |-> b.val]

-----------------------------------------------------------------------------
(* Input lines the model feeds to the program.                             *)

RECURSIVE NatDigits(_)
NatDigits(n) ==
    IF n < 10 THEN <<DigitChars[n + 1]>> ELSE NatDigits(n \div 10) \o <<DigitChars[(n % 10) + 1]>>

FormatInt(n) == IF n < 0 THEN <<"-">> \o NatDigits(-n) ELSE NatDigits(n)

FormatPair(r, c) == FormatInt(r) \o <<" ">> \o FormatInt(c)

\* Lines typed at a selection prompt: every "<row> <col>" around the largest
\* board of the play specification, and lines that exercise the extraction.
PosLines ==
    { FormatPair(r, c) : r \in 0..(MaxRows + 1), c \in 0..(MaxCols + 1) }
    \cup { <<>>,                                   \* an empty line
           <<"x">>,                                \* no integer
           <<"1">>,                                \* one integer only
           <<"1", " ", "x">>,                      \* the second token is no integer
           <<"x", " ", "1">>,                      \* the first token is no integer
           <<"1", "x", " ", "1">>,                 \* "1x 1": the second extraction meets 'x'
           <<"1", " ", "1", "x">>,                 \* "1 1x": extraction stops before 'x'
           <<"1", " ", "2", " ", "2">>,            \* a third token is never read
           <<" ", "2", " ", " ", "1">>,            \* extra blanks
           <<"1", "\t", "2">>,                     \* a tab between the integers
           <<"\t", "1", " ", "1">>,                \* a leading tab
           <<"", "2", "\f", "1">>,               \* a vertical tab and a form feed
           <<"2", " ", "1", "\r">>,                \* a carriage return at the end
           <<"\t", "\r">>,                        \* whitespace only
           <<"+", "1", " ", "2">>,                 \* an explicit plus sign
           <<"-", "1", " ", "1">>,                 \* a negative row
           <<"1", " ", "-", "1">>,                 \* a negative column
           <<"-", " ", "1">>,                      \* a sign with no digit
           <<"2", "1", "4", "7", "4", "8", "3", "6", "4", "8", " ", "1">>,      \* INT_MAX + 1
           <<"-", "2", "1", "4", "7", "4", "8", "3", "6", "4", "8", " ", "1">>, \* INT_MIN
           <<"1", " ", "2", "1", "4", "7", "4", "8", "3", "6", "4", "7">> }     \* INT_MAX

\* What `ss >> r >> c` makes of each of them.
PosInputs == { ParsePair(l) : l \in PosLines }

\* Startup lines of the play specification: the boards "<rows> <cols>" that the
\* bounds admit (an even number of cells).
PlayDims ==
    { d \in (1..MaxRows) \X (1..MaxCols) : (d[1] * d[2]) % 2 = 0 /\ d[1] * d[2] <= MaxCells }

PlayLines == { FormatPair(d[1], d[2]) : d \in PlayDims }

\* Startup lines of the board-construction specification: every "<rows> <cols>"
\* with at most MaxBuildCells cells, an odd number of cells included.
BuildDims ==
    { d \in (1..MaxBuildCells) \X (1..MaxBuildCells) : d[2] <= MaxBuildCells \div d[1] }

BuildLines == { FormatPair(d[1], d[2]) : d \in BuildDims }

-----------------------------------------------------------------------------
(* Card                                                                    *)

Card(v) == [value |-> v, revealed |-> FALSE, matched |-> FALSE]

reveal(cd) == IF ~cd.matched THEN [cd EXCEPT !.revealed = TRUE] ELSE cd

\* Mutant of hide: the matched guard is missing.
hide_Unguarded(cd) == [cd EXCEPT !.revealed = FALSE]

hide(cd) == IF ~cd.matched THEN [cd EXCEPT !.revealed = FALSE] ELSE cd

setMatched(cd) == [cd EXCEPT !.matched = TRUE, !.revealed = TRUE]

-----------------------------------------------------------------------------
(* Board                                                                   *)

Pool ==
    << "A", "B", "C", "D", "E", "F", "G", "H", "I", "J", "K", "L", "M",
       "N", "O", "P", "Q", "R", "S", "T", "U", "V", "W", "X", "Y", "Z",
       "a", "b", "c", "d", "e", "f", "g", "h", "i", "j", "k", "l", "m",
       "n", "o", "p", "q", "r", "s", "t", "u", "v", "w", "x", "y", "z",
       "0", "1", "2", "3", "4", "5", "6", "7", "8", "9",
       "!", "@", "#", "$", "%", "^", "&", "*" >>

\* First loop of makeValues: pool[i] for i = 0, 1, ... while i < pool.size()
\* and vals.size() < pairCount, i.e. the first min(pool.size(), pairCount)
\* symbols of the pool.
TakePool(pairCount) ==
    [k \in 1..(IF pairCount < Len(Pool) THEN pairCount ELSE Len(Pool)) |-> Pool[k]]

\* Second loop of makeValues: pool[i % pool.size()] for i = 0, 1, ... appended
\* while vals.size() < pairCount.
RepeatPool(vals, pairCount) ==
    vals \o [k \in 1..(pairCount - Len(vals)) |-> Pool[((k - 1) % Len(Pool)) + 1]]

\* Mutant of makeValues: only the 26 capital letters are cycled.
makeValues_LettersOnly(pairCount) == [k \in 1..pairCount |-> Pool[((k - 1) % 26) + 1]]

makeValues(pairCount) == RepeatPool(TakePool(pairCount), pairCount)

\* The deck before the shuffle: values[i] pushed twice, for i = 0 .. pairs-1.
PairedDeck(values, pairs) ==
    [k \in 1..(2 * pairs) |-> values[(k + 1) \div 2]]

\* shuffle(deck.begin(), deck.end(), gen) rearranges the deck by a permutation
\* of its positions; which one depends on the seed gen got from random_device.
\* perm[i] is the position the card that ends at position i came from.
IsPermutation(perm, n) == DOMAIN perm = 1..n /\ { perm[i] : i \in 1..n } = 1..n

shuffle(deck, perm) == [i \in 1..Len(deck) |-> deck[perm[i]]]

-----
(* mt19937 gen(rd()): the generator of the library.  A 32-bit word is the  *)
(* pair <<high half, low half>> of its 16-bit halves.                      *)

\* a ^ b and a & b of two halves.
XorBit(a, b, i) == ((((a \div (2 ^ i)) + (b \div (2 ^ i))) % 2) * (2 ^ i))

Xor16(a, b) ==
    (((XorBit(a, b, 0) + XorBit(a, b, 1)) + (XorBit(a, b, 2) + XorBit(a, b, 3)))
      + ((XorBit(a, b, 4) + XorBit(a, b, 5)) + (XorBit(a, b, 6) + XorBit(a, b, 7))))
    + (((XorBit(a, b, 8) + XorBit(a, b, 9)) + (XorBit(a, b, 10) + XorBit(a, b, 11)))
      + ((XorBit(a, b, 12) + XorBit(a, b, 13)) + (XorBit(a, b, 14) + XorBit(a, b, 15))))

And16(a, b) == ((a + b) - Xor16(a, b)) \div 2

\* a ^ b, a & b, a >> k and a << k (0 < k < 32 for >>, 0 < k < 16 for <<) of words.
XorW(a, b) == <<Xor16(a[1], b[1]), Xor16(a[2], b[2])>>

AndW(a, b) == <<And16(a[1], b[1]), And16(a[2], b[2])>>

ShrW(a, k) ==
    IF k >= 16 THEN <<0, a[1] \div (2 ^ (k - 16))>>
    ELSE <<a[1] \div (2 ^ k), ((a[1] % (2 ^ k)) * (2 ^ (16 - k))) + (a[2] \div (2 ^ k))>>

ShlW(a, k) ==
    <<((a[1] % (2 ^ (16 - k))) * (2 ^ k)) + (a[2] \div (2 ^ (16 - k))),
      (a[2] % (2 ^ (16 - k))) * (2 ^ k)>>

\* a * b modulo 2^16 of two halves, by the bytes of a.
MulMod16(a, b) == ((a % 256) * b + 256 * (((a \div 256) * b) % 256)) % 65536

\* The low 32 bits of a * 1812433253 (0x6C078965: the halves 27655 and 35173).
SeedMul(a) ==
    <<(((((a[2] % 256) * 35173) + 256 * ((((a[2] \div 256) * 35173)) % 65536)) \div 65536)
         + (((((a[2] \div 256) * 35173) \div 65536) % 256) * 256)
         + MulMod16(a[1], 35173) + MulMod16(a[2], 27655)) % 65536,
      (((a[2] % 256) * 35173) + 256 * (((a[2] \div 256) * 35173) % 65536)) % 65536>>

\* a + i modulo 2^32, for 0 <= i < 2^16.
AddW(a, i) == <<(a[1] + ((a[2] + i) \div 65536)) % 65536, (a[2] + i) % 65536>>

\* seed(): the word that follows the words acc of the state,
\* 1812433253 * (x ^ (x >> 30)) + i.
SeedWord(acc) ==
    AddW(SeedMul(XorW(acc[Len(acc)], ShrW(acc[Len(acc)], 30))), Len(acc))

\* n more words after acc (by halves of n, which bounds the depth of the
\* evaluation).
RECURSIVE SeedWords(_, _)
SeedWords(acc, n) ==
    IF n = 0 THEN acc
    ELSE IF n = 1 THEN Append(acc, SeedWord(acc))
    ELSE CHOOSE r \in { SeedWords(a, n - (n \div 2)) : a \in { SeedWords(acc, n \div 2) } } : TRUE

\* The 624 words of the state of mt19937 gen(seed), 0 <= seed < 2^16.
mt19937(seed) == SeedWords(<< <<0, seed>> >>, 623)

\* The twist: the word that replaces word Len(new) (from 0) of the state st,
\* new being the words already replaced (0x9908b0df: the halves 39176, 45279).
TwistUpper(st, new) ==
    <<((st[Len(new) + 1][1] \div 32768) * 32768)
         + ((IF Len(new) < 623 THEN st[Len(new) + 2] ELSE new[1])[1] % 32768),
      (IF Len(new) < 623 THEN st[Len(new) + 2] ELSE new[1])[2]>>

TwistWith(src, y) ==
    IF y[2] % 2 = 1 THEN XorW(XorW(src, ShrW(y, 1)), <<39176, 45279>>)
    ELSE XorW(src, ShrW(y, 1))

Twist(st, new) ==
    TwistWith(IF Len(new) < 227 THEN st[Len(new) + 398] ELSE new[Len(new) - 226],
              TwistUpper(st, new))

\* The words that replace the next n words of st, after new.
RECURSIVE GenRand(_, _, _)
GenRand(st, new, n) ==
    IF n = 0 THEN new
    ELSE IF n = 1 THEN Append(new, Twist(st, new))
    ELSE CHOOSE r \in { GenRand(st, a, n - (n \div 2)) : a \in { GenRand(st, new, n \div 2) } } : TRUE

\* The tempering of a state word (0x9d2c5680: the halves 40236, 22144;
\* 0xefc60000: the halves 61382, 0).
Temper1(y) == XorW(y, ShrW(y, 11))

Temper2(y) == XorW(y, AndW(ShlW(y, 7), <<40236, 22144>>))

Temper3(y) == XorW(y, AndW(ShlW(y, 15), <<61382, 0>>))

Temper4(y) == XorW(y, ShrW(y, 18))

Temper(y) == Temper4(Temper3(Temper2(Temper1(y))))

Tempered(st) == [k \in 1..Len(st) |-> Temper(st[k])]

\* The first 624 words gen() returns when seeded with seed.
Outputs(seed) ==
    CHOOSE t \in { Tempered(st) : st \in { GenRand(mt19937(seed), <<>>, 624) } } : TRUE

RECURSIVE Gens(_, _)
Gens(acc, seed) ==
    IF seed > MaxSeed THEN acc ELSE Gens(Append(acc, Outputs(seed)), seed + 1)

\* The words of the generators of the seeds 0..MaxSeed.
GenOutputs == Gens(<<>>, 0)

\* gen(): the k-th word the generator seeded with seed returns, k <= 624 (the
\* shuffle of n cards takes n / 2 words, and one more for each it draws again).
gen(seed, k) == GenOutputs[seed + 1][k]

-----
(* uniform_int_distribution and std::shuffle, as libstdc++ 12 has them for *)
(* a generator of 32-bit words.                                            *)

\* w * range as <<product >> 32, high half of the low word, low half of the
\* low word>>, for range < 2^15.
Scaled(w, range) ==
    <<((w[1] * range) + ((w[2] * range) \div 65536)) \div 65536,
      ((w[1] * range) + ((w[2] * range) \div 65536)) % 65536,
      (w[2] * range) % 65536>>

\* The low word of the product p is below m.
LowBelow(p, m) == p[2] < m \div 65536 \/ (p[2] = m \div 65536 /\ p[3] < m % 65536)

\* -range % range in 32 bits, that is 2^32 % range.
Threshold(range) == ((65536 % range) * (65536 % range)) % range

\* The word is drawn again.
Rejected(p, range) == LowBelow(p, range) /\ LowBelow(p, Threshold(range))

\* A number of 0..range-1 from the words of the generator, starting with the
\* k-th: <<the number, the index of the next word>>.
RECURSIVE uniform_int(_, _, _)
uniform_int(range, seed, k) ==
    IF Rejected(Scaled(gen(seed, k), range), range)
    THEN uniform_int(range, seed, k + 1)
    ELSE <<Scaled(gen(seed, k), range)[1], k + 1>>

\* iter_swap of the positions a and b (from 0) of v.
iter_swap(v, a, b) == [v EXCEPT ![a + 1] = v[b + 1], ![b + 1] = v[a + 1]]

\* Two numbers, of 0..b0-1 and of 0..b1-1, from one number x of 0..b0*b1-1.
gen_two_uniform_ints(b0, b1, x) == <<x \div b1, x % b1>>

\* One round of the loop of shuffle at position i (from 0): positions i and
\* i + 1 are swapped with two positions drawn among 0..i and 0..i+1.  st is
\* <<the deck, the index of the next word of the generator>>.
PairSwaps(v, i, pospos) == iter_swap(iter_swap(v, i, pospos[1]), i + 1, pospos[2])

PairDrawn(v, i, d) == <<PairSwaps(v, i, gen_two_uniform_ints(i + 1, i + 2, d[1])), d[2]>>

PairStep(st, i, seed) == PairDrawn(st[1], i, uniform_int((i + 1) * (i + 2), seed, st[2]))

\* n rounds from position i.
RECURSIVE PairSteps(_, _, _, _)
PairSteps(st, i, n, seed) ==
    IF n = 0 THEN st
    ELSE IF n = 1 THEN PairStep(st, i, seed)
    ELSE CHOOSE r \in { PairSteps(a, i + 2 * (n \div 2), n - (n \div 2), seed) :
                            a \in { PairSteps(st, i, n \div 2, seed) } } : TRUE

\* Before the loop, position 1 of a deck of even length is swapped with
\* position 0 or 1.
FirstDrawn(v, d) == <<iter_swap(v, 1, d[1]), d[2]>>

FirstSwap(v, seed) ==
    IF Len(v) % 2 = 0 THEN FirstDrawn(v, uniform_int(2, seed, 1)) ELSE <<v, 1>>

\* The permutation shuffle applies to a deck of n cards with gen seeded with
\* seed: what it makes of the positions 1..n.
SeededShuffle(n, seed) ==
    IF n = 0 THEN <<>>
    ELSE PairSteps(FirstSwap([j \in 1..n |-> j], seed), 2 - (n % 2), (n - 1) \div 2, seed)[1]

\* The permutations the shuffle of an n-card deck applies.
ShuffleInputs(n) ==
    IF n = 0 THEN { <<>> }
    ELSE IF n <= MaxFullShuffle THEN Permutations(1..n)
    ELSE { SeededShuffle(n, seed) : seed \in 0..MaxSeed }

\* Mutant of BoardInvalid: the constructor does not check the parity.
BoardInvalid_NoParity(r, c) == r <= 0 \/ c <= 0

\* The condition under which the Board constructor throws runtime_error.
BoardInvalid(r, c) == r <= 0 \/ c <= 0 \/ Mul32(r, c) % 2 /= 0

\* What constructing Board(r, c) throws: runtime_error on an invalid
\* configuration, length_error from deck.reserve when rows * cols has wrapped
\* to a negative even int, else nothing.
BoardError(r, c) ==
    IF BoardInvalid(r, c) THEN "runtime_error"
    ELSE IF Mul32(r, c) < 0 THEN "length_error"
    ELSE "none"

\* The number of cards Board(r, c) deals when it does not throw.
DeckLen(r, c) == 2 * DivTrunc(Mul32(r, c), 2)

\* The permutations drawn for the deck Board(r, c) deals (none when it throws).
DeckShuffles(r, c) ==
    IF BoardError(r, c) /= "none" THEN { <<>> } ELSE ShuffleInputs(DeckLen(r, c))

\* The cards Board(r, c) constructs when the shuffle applies perm.
BoardCards(r, c, perm) ==
    LET pairs == DivTrunc(Mul32(r, c), 2)
        values == makeValues(pairs)
        deck == shuffle(PairedDeck(values, pairs), perm)
    IN  [i \in 1..Len(deck) |-> Card(deck[i])]

getSize == Mul32(rows, cols)

\* Board::at(r, c) is cards[r * cols + c] (0-based); sequences are 1-based.
at(r, c) == r * cols + c + 1

revealAt(cs, r, c) == [cs EXCEPT ![at(r, c)] = reveal(@)]

\* Mutant of hideAt: hide() is called on a copy of the card.
hideAt_OnCopy(cs, r, c) == cs

hideAt(cs, r, c) == [cs EXCEPT ![at(r, c)] = hide(@)]

\* Mutant of matchAt: the card is revealed but not marked matched.
matchAt_RevealOnly(cs, r, c) == [cs EXCEPT ![at(r, c)] = reveal(@)]

matchAt(cs, r, c) == [cs EXCEPT ![at(r, c)] = setMatched(@)]

\* Board::allMatched: the scan returns false at the first unmatched card.
RECURSIVE AllMatchedFrom(_, _)
AllMatchedFrom(cs, i) ==
    IF i > Len(cs) THEN TRUE
    ELSE IF ~cs[i].matched THEN FALSE
    ELSE AllMatchedFrom(cs, i + 1)

\* Mutant of allMatched: true as soon as some card is matched.
allMatched_Any(cs) == \E i \in 1..Len(cs) : cs[i].matched

allMatched(cs) == AllMatchedFrom(cs, 1)

-----------------------------------------------------------------------------
(* Game                                                                    *)

\* Mutant of valid: the upper bounds are inclusive.
valid_Inclusive(r, c) == r >= 0 /\ r <= rows /\ c >= 0 /\ c <= cols

valid(r, c) == r >= 0 /\ r < rows /\ c >= 0 /\ c < cols

\* readPos returns (r-1, c-1) when both extractions succeed and valid(r-1, c-1).
Accepted(p) == p.ok /\ valid(Dec32(p.r), Dec32(p.c))

\* The loop condition of Game::play, evaluated on the board the step leaves:
\* the next prompt, or the end of the game.
LoopTop(cs) == IF allMatched(cs) THEN "won" ELSE "first"

\* getline(cin, line) reads the next line of standard input, or fails when
\* none is left; from then on every getline fails.
ReadLine ==
    /\ linesLeft > 0
    /\ linesLeft' = linesLeft - 1
    /\ eof' = eof

ReadFails ==
    /\ linesLeft = 0
    /\ linesLeft' = 0
    /\ eof' = TRUE

DefaultRows == 4
DefaultCols == 4

-----------------------------------------------------------------------------------------------------------------------------------------------------
(* The program.                                                            *)

Init ==
    /\ pc = "main"
    /\ rows = 0
    /\ cols = 0
    /\ cards = <<>>
    /\ moves = 0
    /\ sel1 = None
    /\ sel2 = None
    /\ out = "none"
    /\ eof = FALSE
    /\ linesLeft \in 0..MaxLines
    /\ matchTurns = 0
    /\ missTurns = 0
    /\ turnStart = <<>>

\* The pre-check main() makes on the dimensions before it constructs the Game.
DimsInvalid(r, c) == r <= 0 \/ c <= 0 \/ Mul32(r, c) % 2 /= 0

\* main(), lines 204-210: r and c after the line ln, which `ss >> r >> c` parses
\* as p, and whether the input diagnostic is printed.  An empty line is not
\* parsed.
ParsedDims(ln, p) ==
    IF ln = <<>> THEN [r |-> DefaultRows, c |-> DefaultCols, badInput |-> FALSE]
    ELSE IF ~p.ok THEN [r |-> DefaultRows, c |-> DefaultCols, badInput |-> TRUE]
    ELSE [r |-> p.r, c |-> p.c, badInput |-> FALSE]

\* main(), lines 212-215: the pre-check of the dimensions q, the dimensions
\* passed to Game and the message printed.
CheckedDims(q) ==
    IF DimsInvalid(q.r, q.c)
    THEN [r |-> DefaultRows, c |-> DefaultCols, out |-> "invalid_dims_default"]
    ELSE [r |-> q.r, c |-> q.c,
          out |-> IF q.badInput THEN "invalid_input_default" ELSE "none"]

\* main(), lines 203-215: the dimensions it passes to Game and the message it
\* prints, for the startup line (empty when getline fails).
StartDims(line, hitEof) ==
    LET ln == IF hitEof THEN <<>> ELSE line
    IN  CheckedDims(ParsedDims(ln, ParsePair(ln)))

\* main(): the startup line is read (hitEof: getline fails), the Game is
\* constructed with the shuffle applying perm, and play() prints its banner up
\* to the "Press Enter to start..." read.
Main(line, hitEof, perm) ==
    /\ pc = "main"
    /\ IF hitEof THEN ReadFails ELSE ReadLine
    /\ \E d \in { StartDims(line, hitEof) } :
           IF BoardError(d.r, d.c) /= "none"
           THEN /\ pc' = "error"
                /\ out' = BoardError(d.r, d.c)
                /\ UNCHANGED <<rows, cols, cards>>
           ELSE /\ IsPermutation(perm, DeckLen(d.r, d.c))
                /\ pc' = "start"
                /\ out' = d.out
                /\ rows' = d.r
                /\ cols' = d.c
                /\ cards' = BoardCards(d.r, d.c, perm)
    /\ moves' = 0
    /\ UNCHANGED <<sel1, sel2, matchTurns, missTurns, turnStart>>

\* The permutations drawn for the deck the startup line leads to.
DimsShuffles(d) == DeckShuffles(d.r, d.c)

StartShuffles(line, hitEof) == DimsShuffles(StartDims(line, hitEof))

\* The end of a loop iteration of play() (a `continue` or the end of the
\* body): r1, c1, r2, c2 go out of scope and the loop condition is evaluated
\* on the board the step leaves.
EndTurn ==
    /\ pc' = LoopTop(cards')
    /\ sel1' = None
    /\ sel2' = None
    /\ turnStart' = cards'

\* rows * cols has wrapped, so the board holds fewer cards than the grid has
\* cells: Board::display, which visits every cell of the grid, reads past the
\* end of the vector (undefined behaviour).
DisplayOverruns == rows > 0 /\ cols > 0 /\ cols > IntMax \div rows

\* Board::display builds each border line with string(cols * 4, '-'): when the
\* int product has wrapped below zero the length converts to a size beyond
\* max_size and the constructor throws length_error, before any cell is read.
DisplayThrows == Mul32(cols, 4) < 0

\* play(): the line read after "Press Enter to start..." is discarded; then
\* the loop condition is evaluated for the first time and the board is
\* displayed, inside the loop or after it.  A length_error from the display
\* leaves play() and is caught in main.  When the display reads past the
\* vector the process may be killed there, or read garbage and go on.
PressEnter ==
    /\ pc = "start"
    /\ ReadLine \/ ReadFails
    /\ cards' = cards
    /\ IF DisplayThrows
       THEN /\ pc' = "error"
            /\ out' = "length_error"
            /\ UNCHANGED <<sel1, sel2, turnStart>>
       ELSE /\ out' = "none"
            /\ \/ EndTurn
               \/ /\ DisplayOverruns
                  /\ pc' = "crash"
                  /\ UNCHANGED <<sel1, sel2, turnStart>>
    /\ UNCHANGED <<rows, cols, moves, matchTurns, missTurns>>

\* readPos: getline fails, and the loop continues without a message.
ReadPosEof ==
    /\ pc \in {"first", "second"}
    /\ ReadFails
    /\ out' = "none"
    /\ UNCHANGED <<pc, rows, cols, cards, moves, sel1, sel2, matchTurns, missTurns, turnStart>>

\* readPos: a line that is not accepted; the diagnostic is printed and the
\* prompt repeated.
ReadPosInvalid(p) ==
    /\ pc \in {"first", "second"}
    /\ ReadLine
    /\ ~Accepted(p)
    /\ out' = "invalid"
    /\ UNCHANGED <<pc, rows, cols, cards, moves, sel1, sel2, matchTurns, missTurns, turnStart>>

\* play(): the first selection is an already matched card.
FirstMatched ==
    /\ out' = "first_matched"
    /\ cards' = cards
    /\ EndTurn

\* play(): the first card is revealed and the second prompt follows.
FirstRevealed(r1, c1) ==
    /\ cards' = revealAt(cards, r1, c1)
    /\ sel1' = <<r1, c1>>
    /\ pc' = "second"
    /\ out' = "none"
    /\ UNCHANGED <<sel2, turnStart>>

\* Mutant of SelectFirst: the matched check on the first card is skipped.
SelectFirst_NoMatchedCheck(p) ==
    /\ pc = "first"
    /\ ReadLine
    /\ Accepted(p)
    /\ FirstRevealed(Dec32(p.r), Dec32(p.c))
    /\ UNCHANGED <<rows, cols, moves, matchTurns, missTurns>>

\* play(): readPos returns the first selection.
SelectFirst(p) ==
    /\ pc = "first"
    /\ ReadLine
    /\ Accepted(p)
    /\ LET r1 == Dec32(p.r)
           c1 == Dec32(p.c)
       IN  IF cards[at(r1, c1)].matched
           THEN FirstMatched
           ELSE FirstRevealed(r1, c1)
    /\ UNCHANGED <<rows, cols, moves, matchTurns, missTurns>>

\* Mutant of SameCard: moves is incremented before the same-card check.
SameCard_Counts(r1, c1) ==
    /\ out' = "same_card"
    /\ cards' = hideAt(cards, r1, c1)
    /\ EndTurn
    /\ moves' = moves + 1
    /\ UNCHANGED <<matchTurns, missTurns>>

\* Mutant of SameCard: the first card is not hidden again.
SameCard_NoHide(r1, c1) ==
    /\ out' = "same_card"
    /\ cards' = cards
    /\ EndTurn
    /\ UNCHANGED <<moves, matchTurns, missTurns>>

\* play(): the second selection is the first card again.
SameCard(r1, c1) ==
    /\ out' = "same_card"
    /\ cards' = hideAt(cards, r1, c1)
    /\ EndTurn
    /\ UNCHANGED <<moves, matchTurns, missTurns>>

\* Mutant of SecondMatched: the rejected turn is counted as a move.
SecondMatched_Counts(r1, c1) ==
    /\ out' = "second_matched"
    /\ cards' = hideAt(cards, r1, c1)
    /\ EndTurn
    /\ moves' = moves + 1
    /\ UNCHANGED <<matchTurns, missTurns>>

\* Mutant of SecondMatched: the first card is not hidden again.
SecondMatched_NoHide(r1, c1) ==
    /\ out' = "second_matched"
    /\ cards' = cards
    /\ EndTurn
    /\ UNCHANGED <<moves, matchTurns, missTurns>>

\* play(): the second selection is an already matched card.
SecondMatched(r1, c1) ==
    /\ out' = "second_matched"
    /\ cards' = hideAt(cards, r1, c1)
    /\ EndTurn
    /\ UNCHANGED <<moves, matchTurns, missTurns>>

\* Mutant of Compare: moves is incremented in the mismatch branch only.
Compare_CountsMissesOnly(r1, c1, r2, c2) ==
    LET shown == revealAt(cards, r2, c2) IN
    /\ IF shown[at(r1, c1)].value = shown[at(r2, c2)].value
       THEN /\ out' = "match"
            /\ moves' = moves
            /\ cards' = matchAt(matchAt(shown, r1, c1), r2, c2)
            /\ EndTurn
            /\ matchTurns' = matchTurns + 1
            /\ UNCHANGED missTurns
       ELSE /\ out' = "not_match"
            /\ moves' = moves + 1
            /\ cards' = shown
            /\ pc' = "ack"
            /\ sel2' = <<r2, c2>>
            /\ missTurns' = missTurns + 1
            /\ UNCHANGED <<sel1, matchTurns, turnStart>>

\* Mutant of Compare: the match branch is taken whatever the two values are.
Compare_NoValueCheck(r1, c1, r2, c2) ==
    LET shown == revealAt(cards, r2, c2) IN
    /\ moves' = moves + 1
    /\ out' = "match"
    /\ cards' = matchAt(matchAt(shown, r1, c1), r2, c2)
    /\ EndTurn
    /\ matchTurns' = matchTurns + 1
    /\ UNCHANGED missTurns

\* play(): the second card is revealed, moves is incremented and the two
\* values are compared; a match marks both cards, a mismatch waits for Enter.
Compare(r1, c1, r2, c2) ==
    LET shown == revealAt(cards, r2, c2) IN
    /\ moves' = moves + 1
    /\ IF shown[at(r1, c1)].value = shown[at(r2, c2)].value
       THEN /\ out' = "match"
            /\ cards' = matchAt(matchAt(shown, r1, c1), r2, c2)
            /\ EndTurn
            /\ matchTurns' = matchTurns + 1
            /\ UNCHANGED missTurns
       ELSE /\ out' = "not_match"
            /\ cards' = shown
            /\ pc' = "ack"
            /\ sel2' = <<r2, c2>>
            /\ missTurns' = missTurns + 1
            /\ UNCHANGED <<sel1, matchTurns, turnStart>>

\* play(): readPos returns the second selection.
SelectSecond(p) ==
    /\ pc = "second"
    /\ ReadLine
    /\ Accepted(p)
    /\ LET r1 == sel1[1]
           c1 == sel1[2]
           r2 == Dec32(p.r)
           c2 == Dec32(p.c)
       IN  IF r1 = r2 /\ c1 = c2 THEN SameCard(r1, c1)
           ELSE IF cards[at(r2, c2)].matched THEN SecondMatched(r1, c1)
           ELSE Compare(r1, c1, r2, c2)
    /\ UNCHANGED <<rows, cols>>

\* play(): the line read after "Press Enter to continue..." is discarded and
\* the two cards are hidden.
Acknowledge ==
    /\ pc = "ack"
    /\ ReadLine \/ ReadFails
    /\ cards' = hideAt(hideAt(cards, sel1[1], sel1[2]), sel2[1], sel2[2])
    /\ EndTurn
    /\ out' = "none"
    /\ UNCHANGED <<rows, cols, moves, matchTurns, missTurns>>

\* main() run on a startup line of `lines`, or on an input that has ended,
\* with a permutation for the shuffle of the deck it deals.
Startup(lines) ==
    /\ pc = "main"
    /\ \/ \E line \in lines : \E perm \in StartShuffles(line, FALSE) : Main(line, FALSE, perm)
       \/ \E perm \in StartShuffles(<<>>, TRUE) : Main(<<>>, TRUE, perm)

Next ==
    \/ Startup(PlayLines)
    \/ PressEnter
    \/ ReadPosEof
    \/ \E p \in PosInputs : ReadPosInvalid(p)
    \/ \E p \in PosInputs : SelectFirst(p)
    \/ \E p \in PosInputs : SelectSecond(p)
    \/ Acknowledge

Spec == Init /\ [][Next]_vars

-----
(* Board construction alone: main() up to the first read of play().        *)

NextBuild ==
    \/ Startup(BuildLines)

\* Standard input holds the startup line, or nothing.
InitBuild == Init /\ linesLeft <= 1

SpecBuild == InitBuild /\ [][NextBuild]_vars

-----------------------------------------------------------------------------
(* Play on boards with more pairs than the pool has symbols (and on the    *)
(* 2x2 board), with selections among the first cells of both rows and the  *)
(* cells where one deal of the smallest such board puts the symbol that    *)
(* two of its pairs share.                                                 *)

\* Startup lines: "2 2" and the boards "2 <cols>" of 71..MaxWrapCols columns.
WrapLines ==
    { FormatPair(2, 2) } \cup { FormatPair(2, c) : c \in (Len(Pool) + 1)..MaxWrapCols }

\* The board "2 71" as the seed 0 deals it.
WrapDeal == BoardCards(2, Len(Pool) + 1, SeededShuffle(2 * (Len(Pool) + 1), 0))

\* Selection lines and what `ss >> r >> c` makes of them: rows 0..2 of the
\* first two columns, and the four cells of that board that hold Pool[1].
WrapPosLines ==
    { FormatPair(r, c) : r \in 0..2, c \in {1, 2} }
    \cup { FormatPair(d[1], d[2]) :
               d \in { e \in (1..2) \X (1..(Len(Pool) + 1)) :
                          WrapDeal[(e[1] - 1) * (Len(Pool) + 1) + e[2]].value = Pool[1] } }

WrapInputs == { ParsePair(l) : l \in WrapPosLines }

NextWrap ==
    \/ Startup(WrapLines)
    \/ PressEnter
    \/ ReadPosEof
    \/ \E p \in WrapInputs : ReadPosInvalid(p)
    \/ \E p \in WrapInputs : SelectFirst(p)
    \/ \E p \in WrapInputs : SelectSecond(p)
    \/ Acknowledge

\* Standard input holds at most MaxWrapLines lines.
InitWrap == Init /\ linesLeft <= MaxWrapLines

SpecWrap == InitWrap /\ [][NextWrap]_vars

-----------------------------------------------------------------------------
(* Startup alone: every kind of startup line, end of input included, up to *)
(* the first display of the board, and the direct construction of a Board  *)
(* that main()'s pre-check guards.                                         *)

\* Startup lines: the pairs "<rows> <cols>" around zero and up to MaxStartDim,
\* the empty line, lines that are no pair, and pairs whose int product wraps.
StartLines ==
    { FormatPair(r, c) : r \in (-1)..MaxStartDim, c \in (-1)..MaxStartDim }
    \cup { <<>>,                                   \* Enter alone
           <<" ">>,                                \* a blank, not an empty line
           <<"2", "\t", "2">>,                     \* a tab between the integers
           <<"", "2", "\f", "3", "\r">>,         \* vertical tab, form feed, carriage return
           <<"x">>,                                \* no integer
           <<"3">>,                                \* one integer only
           <<"2", " ", "x">>,                      \* the second token is no integer
           <<"2", ",", "2">>,                      \* a comma for the blank
           <<"2", " ", "2", " ", "x">>,            \* a third token is never read
           <<"2", "1", "4", "7", "4", "8", "3", "6", "4", "8", " ", "2">>,      \* INT_MAX + 1
           <<"6", "5", "5", "3", "6", " ", "6", "5", "5", "3", "6">>,           \* product wraps to 0
           <<"6", "5", "5", "3", "6", " ", "3", "2", "7", "6", "8">>,           \* wraps to INT_MIN
           <<"1", "4", "3", "1", "6", "5", "5", "7", "6", "6", " ", "3">>,      \* wraps to 2
           <<"8", " ", "5", "3", "6", "8", "7", "0", "9", "1", "2">>,           \* wraps to 0, cols * 4 wraps
           <<"5", " ", "8", "5", "8", "9", "9", "3", "4", "6", "0">> }          \* wraps to 4, cols * 4 wraps

\* Board(r, c) constructed directly, without main()'s pre-check: it throws or
\* builds the board.
Construct(r, c, perm) ==
    /\ pc = "main"
    /\ IF BoardError(r, c) /= "none"
       THEN /\ pc' = "threw"
            /\ out' = BoardError(r, c)
            /\ UNCHANGED <<rows, cols, cards>>
       ELSE /\ IsPermutation(perm, DeckLen(r, c))
            /\ pc' = "built"
            /\ out' = "none"
            /\ rows' = r
            /\ cols' = c
            /\ cards' = BoardCards(r, c, perm)
    /\ sel1' = <<r, c>>
    /\ UNCHANGED <<moves, sel2, eof, linesLeft, matchTurns, missTurns, turnStart>>

\* The dimensions a direct construction is tried with.
CtorDims ==
    ((-1)..MaxStartDim) \X ((-1)..MaxStartDim)
    \cup { <<65536, 65536>>, <<65536, 32768>>, <<-65536, 65536>>, <<46341, 46341>> }

NextMain ==
    \/ Startup(StartLines)
    \/ PressEnter
    \/ /\ pc = "main"
       /\ \E d \in CtorDims : \E perm \in DeckShuffles(d[1], d[2]) : Construct(d[1], d[2], perm)

\* Standard input holds the startup line and the line of the first Enter, or less.
InitMain == Init /\ linesLeft <= 2

SpecMain == InitMain /\ [][NextMain]_vars

-----------------------------------------------------------------------------
(* The Card class alone: any sequence of reveal(), hide() and setMatched() *)
(* calls on freshly constructed cards.  `out` records the call of the last *)
(* step and sel1 the card it was made on.                                  *)

InitCard ==
    /\ pc = "card"
    /\ rows = 1
    /\ cols \in 1..MaxCardObjects
    /\ cards = [i \in 1..cols |-> Card(Pool[i])]
    /\ moves = 0
    /\ sel1 = None
    /\ sel2 = None
    /\ out = "none"
    /\ eof = FALSE
    /\ linesLeft = 0
    /\ matchTurns = 0
    /\ missTurns = 0
    /\ turnStart = <<>>

CallReveal(i) ==
    /\ pc = "card"
    /\ cards' = [cards EXCEPT ![i] = reveal(@)]
    /\ out' = "reveal"
    /\ sel1' = <<i>>
    /\ UNCHANGED <<pc, rows, cols, moves, sel2, eof, linesLeft, matchTurns, missTurns, turnStart>>

CallHide(i) ==
    /\ pc = "card"
    /\ cards' = [cards EXCEPT ![i] = hide(@)]
    /\ out' = "hide"
    /\ sel1' = <<i>>
    /\ UNCHANGED <<pc, rows, cols, moves, sel2, eof, linesLeft, matchTurns, missTurns, turnStart>>

CallSetMatched(i) ==
    /\ pc = "card"
    /\ cards' = [cards EXCEPT ![i] = setMatched(@)]
    /\ out' = "setMatched"
    /\ sel1' = <<i>>
    /\ UNCHANGED <<pc, rows, cols, moves, sel2, eof, linesLeft, matchTurns, missTurns, turnStart>>

NextCard ==
    \/ \E i \in 1..Len(cards) : CallReveal(i)
    \/ \E i \in 1..Len(cards) : CallHide(i)
    \/ \E i \in 1..Len(cards) : CallSetMatched(i)

SpecCard == InitCard /\ [][NextCard]_vars

-----------------------------------------------------------------------------
(* Vocabulary of the properties.                                           *)

\* The parsed line p names a cell of the grid by its 1-based row and column.
InGrid(p) == p.ok /\ p.r >= 1 /\ p.r <= rows /\ p.c >= 1 /\ p.c <= cols

\* The input lines that name a cell of some board the bounds admit: every line
\* that names a cell of the board in play is one of them.
GridInputs == { p \in PosInputs : p.ok /\ p.r \in 1..MaxRows /\ p.c \in 1..MaxCols }

\* The position in `cards` of the cell named by p, and by a 0-based selection.
CellOf(p) == (p.r - 1) * cols + p.c

CellOfSel(sel) == sel[1] * cols + sel[2] + 1

Cells == 1..Len(cards)

\* cs and ds are boards of the same values whose cards agree outside S.
SameExcept(cs, ds, S) ==
    /\ Len(cs) = Len(ds)
    /\ \A j \in 1..Len(ds) : cs[j].value = ds[j].value /\ (j \notin S => cs[j] = ds[j])

\* At the second prompt, p names an unmatched card other than the first one:
\* the turn reaches the comparison.
ReachesComparison(p) ==
    /\ pc = "second"
    /\ ~eof
    /\ InGrid(p)
    /\ CellOf(p) /= CellOfSel(sel1)
    /\ ~cards[CellOf(p)].matched

Playing == pc \in {"first", "second", "ack", "won"}

-----------------------------------------------------------------------------
(* Properties.                                                             *)

\* C1: moves increases by exactly 1 in every step that reaches the value
\* comparison (match or not) and is unchanged by every other step: rejected
\* input, a matched first selection, a repeated or matched second selection.
C1_MovesPerTurn ==
    [][ /\ \A p \in GridInputs :
              ReachesComparison(p) /\ SelectSecond(p)
                  => moves' = moves + 1 /\ out' \in {"match", "not_match"}
        /\ out' \notin {"match", "not_match"} => moves' = moves
        /\ out' \in {"match", "not_match"} => moves' = moves + 1 ]_vars

\* C1 witness: a match and then a mismatch have been counted.
C1_Witness == pc = "ack" /\ moves = 2 /\ matchTurns = 1 /\ out = "not_match"

\* C2: once setMatched() has been called on a card, matched and revealed are
\* true, and no later reveal(), hide() or setMatched() changes the card.
C2_MatchedIsTerminal ==
    [][ /\ out' = "setMatched"
              => cards'[sel1'[1]].matched /\ cards'[sel1'[1]].revealed
        /\ \A i \in Cells :
              cards[i].matched => cards[i].revealed /\ cards'[i] = cards[i] ]_vars

\* C2 witness: hide() has just been called on a matched card.
C2_Witness == pc = "card" /\ out = "hide" /\ cards[sel1[1]].matched

\* C3: a comparison of two equal values marks both selected cards matched and
\* revealed and changes no other card; matched cards stay matched and face-up.
C3_MatchMarksBoth ==
    [][ /\ \A p \in GridInputs :
              /\ ReachesComparison(p)
              /\ cards[CellOfSel(sel1)].value = cards[CellOf(p)].value
              /\ SelectSecond(p)
              => /\ out' = "match"
                 /\ cards'[CellOfSel(sel1)].matched /\ cards'[CellOfSel(sel1)].revealed
                 /\ cards'[CellOf(p)].matched /\ cards'[CellOf(p)].revealed
                 /\ SameExcept(cards', cards, {CellOfSel(sel1), CellOf(p)})
        /\ \A i \in Cells :
              cards[i].matched
                  => Len(cards') = Len(cards) /\ cards'[i].matched /\ cards'[i].revealed ]_vars

\* C3 witness: a pair matched in an earlier turn is still matched and face-up
\* while a later mismatch is shown.
C3_Witness ==
    /\ pc = "ack"
    /\ matchTurns = 1
    /\ Cardinality({i \in Cells : cards[i].matched /\ cards[i].revealed}) = 2

\* C4: a comparison of two different values leaves both selected cards revealed
\* and unmatched while the game waits for Enter, changing no other card; while
\* it waits, the cards change only in a step that has received the line of the
\* acknowledgment, and that step hides both, changing no other card.
C4_MismatchShownThenHidden ==
    [][ /\ \A p \in GridInputs :
              /\ ReachesComparison(p)
              /\ cards[CellOfSel(sel1)].value /= cards[CellOf(p)].value
              /\ SelectSecond(p)
              => /\ pc' = "ack"
                 /\ sel1' = sel1
                 /\ CellOfSel(sel2') = CellOf(p)
                 /\ SameExcept(cards', cards, {CellOf(p)})
        /\ pc' = "ack"
              => /\ CellOfSel(sel1') /= CellOfSel(sel2')
                 /\ \A i \in {CellOfSel(sel1'), CellOfSel(sel2')} :
                        cards'[i].revealed /\ ~cards'[i].matched
        /\ pc = "ack" /\ cards' /= cards
              => linesLeft' = linesLeft - 1
        /\ pc = "ack" /\ linesLeft' = linesLeft - 1
              => /\ pc' /= "ack"
                 /\ \A i \in {CellOfSel(sel1), CellOfSel(sel2)} :
                        ~cards'[i].revealed /\ ~cards'[i].matched
                 /\ SameExcept(cards', cards, {CellOfSel(sel1), CellOfSel(sel2)}) ]_vars

\* C5: during play the game is in Won exactly when every cell is matched; it
\* prompts for a selection only while some cell is unmatched; and allMatched()
\* is true iff every cell's matched flag is true.
C5_WonIffAllMatched ==
    Playing =>
        /\ pc \in {"first", "second"} => ~allMatched(cards)
        /\ pc = "won" <=> \A i \in Cells : cards[i].matched
        /\ allMatched(cards) <=> \A i \in Cells : cards[i].matched

\* C5 witness: a six-cell game has been won.
C5_Witness == pc = "won" /\ Len(cards) = 6 /\ \A i \in Cells : cards[i].matched

\* The line holds two integers separated by white space, and nothing else but
\* white space around them.
TwoIntegers(line) ==
    \A a \in { ReadInt(line, 1) } :
        /\ a.ok
        /\ a.next <= Len(line)
        /\ line[a.next] \in WhiteSpace
        /\ \A b \in { ReadInt(line, a.next) } :
               b.ok /\ SkipWs(line, b.next) > Len(line)

\* C6: at either prompt, the step that handles a line that is not two integers,
\* or whose 1-based row and column name no cell of the grid, changes neither
\* moves nor any card nor the prompt.
C6_RejectedInputChangesNothing ==
    [][ \/ UNCHANGED <<pc, rows, cols, cards, moves, sel1, sel2>>
        \/ \A line \in PosLines : \A p \in { ParsePair(line) } :
               ~TwoIntegers(line) \/ ~InGrid(p)
                   => ~(ReadPosInvalid(p) \/ SelectFirst(p) \/ SelectSecond(p)) ]_vars

\* C7: a second selection equal to the first restarts the turn with that card
\* hidden and unmatched, the board as it was at the start of the turn, and
\* moves unchanged.
C7_SameCardRestartsTurn ==
    [][ \A p \in GridInputs :
            /\ pc = "second" /\ ~eof /\ InGrid(p)
            /\ CellOf(p) = CellOfSel(sel1)
            /\ SelectSecond(p)
            => /\ pc' = "first"
               /\ out' = "same_card"
               /\ cards' = turnStart
               /\ ~cards'[CellOf(p)].revealed /\ ~cards'[CellOf(p)].matched
               /\ moves' = moves ]_vars

\* C7 witness: the same card has just been selected twice, after a counted turn.
C7_Witness == pc = "first" /\ out = "same_card" /\ moves = 1

\* C8: selecting a matched card is rejected: as first selection no card
\* changes; as second selection the first card is hidden again.  Either way
\* the turn restarts, the matched card stays matched and revealed, the board
\* is as it was at the start of the turn, and moves is unchanged.
C8_MatchedCardRejected ==
    [][ /\ \A p \in GridInputs :
              /\ pc = "first" /\ ~eof /\ InGrid(p)
              /\ cards[CellOf(p)].matched
              /\ SelectFirst(p)
              => /\ pc' = "first"
                 /\ out' = "first_matched"
                 /\ cards' = cards /\ cards' = turnStart
                 /\ moves' = moves
        /\ \A p \in GridInputs :
              /\ pc = "second" /\ ~eof /\ InGrid(p)
              /\ cards[CellOf(p)].matched
              /\ SelectSecond(p)
              => /\ pc' = "first"
                 /\ out' = "second_matched"
                 /\ cards' = turnStart
                 /\ ~cards'[CellOfSel(sel1)].revealed
                 /\ cards'[CellOf(p)].matched /\ cards'[CellOf(p)].revealed
                 /\ moves' = moves ]_vars

\* C8 witness: a matched card has just been rejected as second selection.
C8_Witness == pc = "first" /\ out = "second_matched" /\ matchTurns = 1

\* C9: a constructed board of at most 136 cells holds rows*cols cards, all
\* unrevealed and unmatched, with exactly rows*cols/2 distinct values, each in
\* exactly two cells.
C9_PairedDeck ==
    pc = "start" /\ rows * cols <= 136
        => /\ rows > 0 /\ cols > 0 /\ (rows * cols) % 2 = 0
           /\ Len(cards) = rows * cols
           /\ Cardinality({cards[i].value : i \in Cells}) = (rows * cols) \div 2
           /\ \A i \in Cells : Cardinality({j \in Cells : cards[j].value = cards[i].value}) = 2
           /\ \A i \in Cells : ~cards[i].revealed /\ ~cards[i].matched

\* C9 witness: a board of 136 cells has been constructed.
C9_Witness == pc = "start" /\ rows * cols = 136 /\ Len(cards) = 136

\* C10: while no turn has ended in a mismatch, moves equals the number of
\* matching turns, and the game is in Won exactly when rows*cols/2 turns have
\* been completed; it then reports moves = rows*cols/2.
C10_PerfectGame ==
    Playing /\ missTurns = 0
        => /\ moves = matchTurns
           /\ pc = "won" <=> matchTurns = (rows * cols) \div 2
           /\ pc = "won" => moves = (rows * cols) \div 2

\* C10 witness: a 2x2 game won in two matching turns.
C10_Witness == pc = "won" /\ rows = 2 /\ cols = 2 /\ missTurns = 0 /\ moves = 2

-----------------------------------------------------------------------------
(* Properties of startup.                                                  *)

\* A game is about to start on a 4x4 board of 8 distinct values, each twice.
DefaultGame ==
    /\ pc = "start"
    /\ rows = 4 /\ cols = 4 /\ Len(cards) = 16
    /\ Cardinality({cards[i].value : i \in Cells}) = 8
    /\ \A i \in Cells : Cardinality({j \in Cells : cards[j].value = cards[i].value}) = 2

\* The startup line is a pair with a non-positive dimension or an odd product.
BadPair(p) == p.ok /\ (p.r <= 0 \/ p.c <= 0 \/ (p.r % 2 = 1 /\ p.c % 2 = 1))

\* The product of the positive dimensions r and c is representable as an int.
Fits(r, c) == c <= IntMax \div r

\* A game is about to start on a board of exactly r x c cells.
ExactBoard(r, c) ==
    pc = "start" /\ rows = r /\ cols = c /\ Fits(r, c) /\ Len(cards) = r * c

Diagnostics == {"invalid_input_default", "invalid_dims_default"}

\* C11 as stated: an empty line, a line that is no pair of integers and a pair
\* with a non-positive dimension or an odd product all start a 4x4 game of 8
\* paired values and print a diagnostic; every other pair starts a game on a
\* board of exactly the entered dimensions.
C11_Original ==
    [][ \A line \in StartLines : \A p \in {ParsePair(line)} :
            \/ IF line = <<>> \/ ~p.ok \/ BadPair(p)
               THEN DefaultGame' /\ out' \in Diagnostics
               ELSE ExactBoard(p.r, p.c)'
            \/ ~\E perm \in StartShuffles(line, FALSE) : Main(line, FALSE, perm) ]_vars

\* C12: constructing a Board throws the invalid-configuration error exactly
\* when rows <= 0, cols <= 0 or rows*cols is odd; and main() never meets that
\* error: for every startup line, end of input included, it does not end in the
\* invalid-configuration error, and the board it constructs has positive
\* dimensions with an even product.
C12_ConfigErrorOnlyByDirectConstruction ==
    [][ /\ \A d \in CtorDims :
              \/ (pc' = "threw" /\ out' = "runtime_error"
                      <=> d[1] <= 0 \/ d[2] <= 0 \/ (d[1] % 2 = 1 /\ d[2] % 2 = 1))
              \/ ~\E perm \in DeckShuffles(d[1], d[2]) : Construct(d[1], d[2], perm)
        /\ pc = "main" /\ pc' \in {"start", "error"}
              => /\ ~(pc' = "error" /\ out' = "runtime_error")
                 /\ pc' = "start" => rows' > 0 /\ cols' > 0 /\ (rows' % 2 = 0 \/ cols' % 2 = 0) ]_vars

\* C12 witness: a direct construction with positive dimensions and an odd
\* product has thrown the invalid-configuration error.
C12_Witness == pc = "threw" /\ out = "runtime_error" /\ sel1[1] > 0 /\ sel1[2] > 0

-----------------------------------------------------------------------------
(* Properties of play.                                                     *)

\* C13: at a selection prompt, every read that is not accepted (a malformed
\* line, coordinates out of range, or a failed read such as end of input)
\* prints the fixed diagnostic before the prompt is shown again.
C13_RejectionPrintsDiagnostic ==
    [][ ReadPosEof \/ (\E p \in PosInputs : ~Accepted(p) /\ ReadPosInvalid(p))
            => pc \in {"first", "second"} /\ pc' = pc /\ out' = "invalid" ]_vars

\* The unmatched cards of the board cs that are face-up.
ShownUnmatched(cs) == {i \in 1..Len(cs) : cs[i].revealed /\ ~cs[i].matched}

\* C14: the turn follows the state order.  The second prompt is entered only
\* from the first prompt, by a selection of an unmatched card, which the step
\* reveals.  The comparison (the step that counts a move) is made only at the
\* second prompt, on a second card that is another one than the first and
\* unmatched, and the step reveals it.  A match, a rejected selection (first
\* card matched, same card, second card matched) and the acknowledgment of a
\* mismatch all lead to the first prompt or, exactly when every card is
\* matched, to Won; a mismatch leads to its acknowledgment first.
C14_TurnStateOrder ==
    [][ /\ pc' = "second" /\ pc /= "second"
              => /\ pc = "first"
                 /\ \E i \in Cells :
                        /\ ~cards[i].matched /\ ~cards[i].revealed
                        /\ sel1' /= None /\ CellOfSel(sel1') = i
                        /\ cards' = [cards EXCEPT ![i].revealed = TRUE]
        /\ moves' /= moves
              => /\ pc = "second"
                 /\ \E j \in Cells :
                        /\ j /= CellOfSel(sel1)
                        /\ ~cards[j].matched /\ ~cards[j].revealed
                        /\ cards'[j].revealed /\ cards'[CellOfSel(sel1)].revealed
                 /\ out' \in {"match", "not_match"}
                 /\ pc' = IF out' = "not_match" THEN "ack" ELSE LoopTop(cards')
        /\ pc' = "ack" /\ pc /= "ack" => moves' /= moves
        /\ out' \in {"first_matched", "same_card", "second_matched", "match"} \/ pc = "ack"
              => /\ pc' \in {"first", "won"}
                 /\ pc' = "won" <=> \A i \in Cells : cards'[i].matched
                 /\ sel1' = None /\ sel2' = None ]_vars

\* C14 witness: a game has gone through a mismatch, its acknowledgment and two
\* matches, and is won.
C14_Witness == pc = "won" /\ missTurns = 1 /\ matchTurns = 2 /\ out = "match"

\* C15: at every first prompt and in Won each card is revealed iff it is
\* matched; at every second prompt exactly one unmatched card is revealed, the
\* first selection; and never are more than two unmatched cards revealed.
C15_FaceUpCards ==
    /\ pc \in {"first", "won"} => \A i \in Cells : cards[i].revealed <=> cards[i].matched
    /\ pc = "second" => sel1 /= None /\ ShownUnmatched(cards) = {CellOfSel(sel1)}
    /\ Cardinality(ShownUnmatched(cards)) <= 2

\* C15 witness: the second prompt of a turn that follows a mismatch and a
\* match: one pair is matched and one unmatched card is face-up.
C15_Witness ==
    /\ pc = "second" /\ matchTurns = 1 /\ missTurns = 1
    /\ Cardinality(ShownUnmatched(cards)) = 1
    /\ \E i \in Cells : cards[i].matched

\* The unmatched cells of the board.
Unmatched == {j \in Cells : ~cards[j].matched}

\* The unmatched cells of the board that hold the value v.
UnmatchedWith(v) == {j \in Unmatched : cards[j].value = v}

\* C16: on every board, one with more pairs than the pool has symbols
\* included, the number of unmatched cells holding each value is even in every
\* state; hence, while allMatched() is false, two distinct unmatched cells hold
\* equal values.
C16_UnmatchedValuesEven ==
    pc \in {"start", "first", "second", "ack", "won"}
        => \A U \in { Unmatched } :
               /\ \A v \in {cards[i].value : i \in U} :
                      Cardinality({j \in U : cards[j].value = v}) % 2 = 0
               /\ ~allMatched(cards)
                      => \E i \in U : \E j \in U : i /= j /\ cards[i].value = cards[j].value

\* C16 witness: on a board of 71 pairs over 70 symbols, two of the four cells
\* that hold the symbol of two pairs have been matched, and the other two are
\* still unmatched.
C16_Witness ==
    /\ pc = "first" /\ Len(cards) > 2 * Len(Pool)
    /\ \E i \in Cells : \E j \in Cells :
           /\ j /= i
           /\ cards[i].matched /\ cards[j].matched
           /\ Cardinality(UnmatchedWith(cards[i].value)) = 2
           /\ Cardinality({k \in Cells : cards[k].matched}) = 2

\* The matched cells of the board.
MatchedCells == {i \in Cells : cards[i].matched}

\* C17: in every state the number of matched cells is even and is twice the
\* number of turns that ended in a match, and moves is the number of turns
\* that ended in a match plus the number that ended in a mismatch; so moves is
\* at least half the number of matched cells, and at least rows*cols/2 in Won.
C17_MovesAccounting ==
    pc \in {"start", "first", "second", "ack", "won"}
        => /\ Cardinality(MatchedCells) % 2 = 0
           /\ Cardinality(MatchedCells) = 2 * matchTurns
           /\ moves = matchTurns + missTurns
           /\ moves >= Cardinality(MatchedCells) \div 2
           /\ pc = "won" => moves >= (rows * cols) \div 2

\* C17 witness: three moves have been counted, one match and two mismatches,
\* and two cells are matched.
C17_Witness ==
    pc = "ack" /\ moves = 3 /\ matchTurns = 1 /\ missTurns = 2 /\ Cardinality(MatchedCells) = 2

\* The 0-based coordinates sel lie in the grid.
InRange(sel) == sel[1] >= 0 /\ sel[1] < rows /\ sel[2] >= 0 /\ sel[2] < cols

\* C18: every cell access of play() uses coordinates with 0 <= r < rows and
\* 0 <= c < cols.  What readPos accepts at a prompt names a cell of the grid;
\* the selection steps read and change cards at the accepted coordinates only;
\* the coordinates kept for the rest of the turn (the first card while the
\* second is awaited, both cards while a mismatch is shown, and when they are
\* hidden) lie in the grid; and no step changes a card elsewhere.
C18_AccessesInRange ==
    /\ [](pc \in {"first", "second"} => \A p \in PosInputs : Accepted(p) => InGrid(p))
    /\ [](/\ pc \in {"second", "ack"} => InRange(sel1)
          /\ pc = "ack" => InRange(sel2)
          /\ sel1 /= None => InRange(sel1)
          /\ sel2 /= None => InRange(sel2))
    /\ [][ /\ out' /= "invalid"
                 => \A p \in PosInputs : InGrid(p) \/ ~(SelectFirst(p) \/ SelectSecond(p))
           /\ pc \in {"first", "second", "ack"}
                 => /\ Len(cards') = Len(cards)
                    /\ \A i \in Cells :
                           cards'[i] /= cards[i]
                               => \/ sel1 /= None /\ i = CellOfSel(sel1)
                                  \/ sel2 /= None /\ i = CellOfSel(sel2)
                                  \/ \E p \in GridInputs :
                                         /\ InGrid(p) /\ i = CellOf(p)
                                         /\ SelectFirst(p) \/ SelectSecond(p) ]_vars

\* C18 witness: a turn has accessed the first cell of the grid and its last
\* one, and both are shown after the mismatch.
C18_Witness ==
    /\ pc = "ack" /\ rows = 2 /\ cols = 3
    /\ sel1 = <<0, 0>> /\ sel2 = <<rows - 1, cols - 1>>
    /\ cards[1].revealed /\ cards[Len(cards)].revealed

====
